---- MODULE Spec2Model ----
(***************************************************************************)
(* Model of fc/virtualproduct.py: the FractionalCover transformation       *)
(* (__init__, compute) and the USGS Collection 2 rescaling functions       *)
(* scale_usgs_collection2 / scale_and_clip_dataarray.                      *)
(*                                                                         *)
(* A band's pixel array is a sequence of raw integers.  A value produced   *)
(* by the arithmetic of line 114 is kept exactly, as a record              *)
(*     [m |-> thousandths of the exact result, e |-> sign of the binary64  *)
(*      rounding error of the computed result against the exact one],      *)
(* so that the truncating cast of line 120 sees what numpy sees.           *)
(***************************************************************************)
EXTENDS Integers, Sequences, FiniteSets, TLC

VARIABLES
    pc,         \* position of the caller / of compute
    self,       \* the FractionalCover object's fields
    input,      \* the cube handed to compute (argument `data` on entry)
    data,       \* compute's local `data`
    scaled,     \* bands of the dataset Dataset.apply is building (line 104)
    fc,         \* compute's local `fc`: list of results, then the cube
    time_idx,   \* loop variable of line 63 (1-based here)
    calls,      \* history: the arguments of every fractional_cover call
    unmixNames, \* band naming convention of the fractional_cover in use
    outcome,    \* "none", "returned", or the exception that left the call
    raised_line,\* source line that raised it (0: none)
    ctor_arg,   \* history: the regression_coefficients argument of __init__
    result,     \* the value compute returned
    scaleArgs,  \* arguments of a direct scale_and_clip_dataarray call
    scaleRet    \* what that call returned

vars == <<pc, self, input, data, scaled, fc, time_idx, calls, unmixNames,
          outcome, raised_line, ctor_arg, result, scaleArgs, scaleRet>>

----------------------------------------------------------------------------
(* Bounds of the model *)

MaxTime == 3        \* longest time axis of an input cube
MaxLen == 2         \* longest array handed directly to scale_and_clip_dataarray
MaxOver == 1        \* how far a spatial extent may exceed the test window

----------------------------------------------------------------------------
(* Program constants *)

TestWindow == 100           \* slice(0, 100), line 56
C2ScaleMilli == 275         \* scale_factor=0.275, in thousandths, line 105
C2Offset == -2000           \* add_offset=-2000, line 105
C2ClipMin == 0              \* clip_range=(0, 10000), line 105
C2ClipMax == 10000
DefaultNewNodata == -999    \* new_nodata=-999, line 108
Int16Bits == 16             \* new_dtype='int16', line 108

RequiredBands == <<"green", "red", "nir", "swir1", "swir2">>

RequiredBandSet == {RequiredBands[i] : i \in 1..Len(RequiredBands)}

FC_MEASUREMENTS == <<"pv", "npv", "bs", "ue">>

NativeNames == {"BS", "PV", "NPV", "UE"}

PublicNames == {"bs", "pv", "npv", "ue"}

RenameMap == [BS |-> "bs", PV |-> "pv", NPV |-> "npv", UE |-> "ue"]

IdentityPair == <<0, 1>>

----------------------------------------------------------------------------
(* scale_and_clip_dataarray, lines 107-126 *)

Min(a, b) == IF a < b THEN a ELSE b

\* A configuration: scale in thousandths, offset, clip range (<<>> is None),
\* new nodata.
Cfg(sm, off, clip, nn) == [sm |-> sm, off |-> off, clip |-> clip, nn |-> nn]

C2Config == Cfg(C2ScaleMilli, C2Offset, <<C2ClipMin, C2ClipMax>>, DefaultNewNodata)

DefaultConfig == Cfg(1000, 0, <<>>, DefaultNewNodata)

\* Raw values r for which the binary64 result of r * 0.275 + -2000 lies
\* above the exact rational result (the product r * 0.275 rounds up).  The
\* table covers the raw values the model draws, and matters to the cast at
\* the multiples of 40 only, where the exact result is an integer.
RoundsAbove == {-999, 3636, 3637, 3638, 3639, 3640, 7273, 7280, 43636, 43640}

FloatErr(raw, cfg) ==
    IF cfg.sm = C2ScaleMilli /\ cfg.off = C2Offset /\ raw \in RoundsAbove
    THEN 1 ELSE 0

\* line 114: dataarray * scale_factor + add_offset
Affine(raw, cfg) ==
    [m |-> raw * cfg.sm + cfg.off * 1000, e |-> FloatErr(raw, cfg)]

\* what DataArray.clip(lo, hi) computes for one value
ClipValue(v, lo, hi) ==
    IF v.m < lo * 1000 \/ (v.m = lo * 1000 /\ v.e < 0) THEN [m |-> lo * 1000, e |-> 0]
    ELSE IF v.m > hi * 1000 \/ (v.m = hi * 1000 /\ v.e > 0) THEN [m |-> hi * 1000, e |-> 0]
    ELSE v

ClipArray(arr, cfg) ==
    [i \in DOMAIN arr |-> ClipValue(arr[i], cfg.clip[1], cfg.clip[2])]

\* lines 116-118: the clipped array is computed and dropped; `dataarray`
\* is not rebound.
ClipStatement(arr, cfg) ==
    IF cfg.clip # <<>>
    THEN LET clipped == ClipArray(arr, cfg) IN arr
    ELSE arr

\* truncation toward zero of the computed value
Trunc(v) ==
    IF v.m % 1000 = 0
    THEN LET k == v.m \div 1000
         IN  IF k < 0 /\ v.e > 0 THEN k + 1
             ELSE IF k > 0 /\ v.e < 0 THEN k - 1
             ELSE k
    ELSE IF v.m >= 0 THEN v.m \div 1000 ELSE -((-v.m) \div 1000)

\* line 120: astype('int16')
AsInt16(v) ==
    LET half == 2 ^ (Int16Bits - 1)
    IN  ((Trunc(v) + half) % (2 * half)) - half

\* line 112: dataarray.data == nodata
NodataMask(arr, nodata) == [i \in DOMAIN arr |-> arr[i] = nodata]

\* line 122: dataarray.data[mask] = new_nodata
WriteNodata(arr, mask, nn) ==
    [i \in DOMAIN arr |-> IF mask[i] THEN nn ELSE arr[i]]

\* line 110 raises KeyError when the band has no 'nodata' attribute
HasNodata(band) == "nodata" \in DOMAIN band.attrs

\* scale_and_clip_dataarray with the mask taken after the arithmetic, from
\* the rescaled values
ScaleMaskAfterArithmetic(band, cfg) ==
    LET nodata  == band.attrs.nodata
        affine  == [i \in DOMAIN band.data |-> Affine(band.data[i], cfg)]
        clipped == ClipStatement(affine, cfg)
        cast    == [i \in DOMAIN clipped |-> AsInt16(clipped[i])]
        mask    == NodataMask(cast, nodata)
    IN  [data  |-> WriteNodata(cast, mask, cfg.nn),
         attrs |-> [band.attrs EXCEPT !.nodata = cfg.nn]]

\* lines 109-126 for a band that has a nodata attribute
scale_and_clip_dataarray(band, cfg) ==
    LET nodata  == band.attrs.nodata
        mask    == NodataMask(band.data, nodata)
        affine  == [i \in DOMAIN band.data |-> Affine(band.data[i], cfg)]
        clipped == ClipStatement(affine, cfg)
        cast    == [i \in DOMAIN clipped |-> AsInt16(clipped[i])]
    IN  [data  |-> WriteNodata(cast, mask, cfg.nn),
         attrs |-> [band.attrs EXCEPT !.nodata = cfg.nn]]

----------------------------------------------------------------------------
(* Inputs *)

NoAttrs == [k \in {} |-> 0]

SetAttr(attrs, key, val) ==
    [k \in DOMAIN attrs \cup {key} |-> IF k = key THEN val ELSE attrs[k]]

TimeLabels == {1, 2}

\* the raw value every band of a scene holds at its origin cell, per time
\* label: label 1 is a missing observation (the nodata value 0)
SceneValue(t) == IF t = 1 THEN 0 ELSE 5000

TimeAxes == UNION {[1..n -> TimeLabels] : n \in 0..MaxTime}

Extents == {2, TestWindow, TestWindow + MaxOver}

CubeAttrs == {NoAttrs, [crs |-> "EPSG:3577"], [crs |-> "EPSG:32655"]}

\* band layouts: the five required bands with or without nodata metadata,
\* or a cube without the swir2 band
BandLayouts ==
    { [present |-> RequiredBandSet, nodataless |-> {}],
      [present |-> RequiredBandSet, nodataless |-> {"green"}],
      [present |-> RequiredBandSet, nodataless |-> {"swir2"}],
      [present |-> RequiredBandSet \ {"swir2"}, nodataless |-> {}] }

MakeCube(attrs, time, nx, ny, layout) ==
    [attrs |-> attrs, time |-> time, nx |-> nx, ny |-> ny,
     bands |-> [b \in layout.present |->
                  [data  |-> [i \in DOMAIN time |-> SceneValue(time[i])],
                   attrs |-> IF b \in layout.nodataless
                             THEN NoAttrs ELSE [nodata |-> 0]]]]

Cubes ==
    { MakeCube(a, t, nx, ny, l) :
        a \in CubeAttrs, t \in TimeAxes, nx \in Extents, ny \in Extents,
        l \in BandLayouts }

\* regression_coefficients arguments: None, or a mapping
CoefficientArgs ==
    { [given |-> FALSE, map |-> NoAttrs],
      [given |-> TRUE,  map |-> [b \in {"green", "red"} |-> <<5, 2>>]],
      [given |-> TRUE,  map |-> [b \in RequiredBandSet |-> <<3, 1>>]],
      [given |-> TRUE,  map |-> [b \in RequiredBandSet \cup {"blue"} |-> <<0, 1>>]] }

RawVals == {-999, 0, 3637, 3640, 5000, 43640}

RawArrays == UNION {[1..n -> RawVals] : n \in 1..MaxLen}

ScaleBands ==
    { [data |-> a, attrs |-> at] :
        a \in RawArrays, at \in {NoAttrs, [nodata |-> 0], [nodata |-> -999]} }

ScaleConfigs ==
    { DefaultConfig,
      C2Config,
      Cfg(C2ScaleMilli, C2Offset, <<>>, DefaultNewNodata),
      Cfg(1000, 0, <<C2ClipMin, C2ClipMax>>, -1) }

----------------------------------------------------------------------------
(* FractionalCover, lines 35-71 *)

\* lines 42-46
InitCoefficients(arg) ==
    IF ~arg.given
    THEN [band \in RequiredBandSet |-> IdentityPair]
    ELSE arg.map

\* isel with the y slice left out
IselWindowXOnly(d) == [d EXCEPT !.nx = Min(d.nx, TestWindow)]

\* line 56: data.isel(x=slice(0, 100), y=slice(0, 100))
IselWindow(d) ==
    [d EXCEPT !.nx = Min(d.nx, TestWindow), !.ny = Min(d.ny, TestWindow)]

\* the data variables of a cube, in order
DataVars(d) == SelectSeq(RequiredBands, LAMBDA b : b \in DOMAIN d.bands)

\* Dataset.apply without keep_attrs=True
ApplyResultNoAttrs(d, done) ==
    [d EXCEPT !.bands = [b \in DOMAIN d.bands |->
                           LET i == CHOOSE j \in DOMAIN done : done[j].name = b
                           IN  done[i].band],
              !.attrs = NoAttrs]

\* line 104: the dataset Dataset.apply(..., keep_attrs=True) returns
ApplyResult(d, done) ==
    [d EXCEPT !.bands = [b \in DOMAIN d.bands |->
                           LET i == CHOOSE j \in DOMAIN done : done[j].name = b
                           IN  done[i].band],
              !.attrs = d.attrs]

\* line 64: data.isel(time=time_idx)
IselTime(d, i) ==
    [attrs |-> d.attrs, time |-> d.time[i], nx |-> d.nx, ny |-> d.ny,
     bands |-> [b \in DOMAIN d.bands |->
                  [data |-> d.bands[b].data[i], attrs |-> d.bands[b].attrs]]]

\* fc.fractional_cover.fractional_cover: a four-band dataset computed from
\* one slice; kept uninterpreted
fractional_cover(slice, measurements, coefficients) ==
    [names |-> IF unmixNames = "native" THEN NativeNames ELSE PublicNames,
     attrs |-> NoAttrs,
     time  |-> slice.time, nx |-> slice.nx, ny |-> slice.ny,
     of    |-> [slice |-> slice, measurements |-> measurements,
                coefficients |-> coefficients]]

\* line 65: xr.concat(fc, dim='time') of a non-empty list
ConcatTime(list) ==
    [names  |-> list[1].names,
     attrs  |-> list[1].attrs,
     nx     |-> list[1].nx, ny |-> list[1].ny,
     time   |-> [i \in DOMAIN list |-> list[i].time],
     slices |-> [i \in DOMAIN list |-> list[i].of]]

\* line 66: fc.attrs['crs'] = data.attrs['crs']
CopyCrs(cube, d) == [cube EXCEPT !.attrs = SetAttr(cube.attrs, "crs", d.attrs.crs)]

\* Dataset.rename raises ValueError when a name to rename is not in the
\* dataset, or a new name is already taken
RenameRaises(names) ==
    \/ \E k \in DOMAIN RenameMap : k \notin names
    \/ \E k \in DOMAIN RenameMap : RenameMap[k] \in names

\* the rename without the except clause
TryRenameUncaught(cube) ==
    IF RenameRaises(cube.names)
    THEN [raised |-> TRUE, cube |-> cube]
    ELSE [raised |-> FALSE,
          cube |-> [cube EXCEPT !.names =
                      {IF n \in DOMAIN RenameMap THEN RenameMap[n] ELSE n : n \in cube.names}]]

\* lines 67-70: rename, a ValueError being caught and passed over
TryRename(cube) ==
    IF RenameRaises(cube.names)
    THEN [raised |-> FALSE, cube |-> cube]
    ELSE [raised |-> FALSE,
          cube |-> [cube EXCEPT !.names =
                      {IF n \in DOMAIN RenameMap THEN RenameMap[n] ELSE n : n \in cube.names}]]

----------------------------------------------------------------------------
(* Actions *)

NoArg == [given |-> FALSE, map |-> NoAttrs]

Init ==
    /\ pc = "new"
    /\ self = NoAttrs
    /\ input = NoAttrs
    /\ data = NoAttrs
    /\ scaled = <<>>
    /\ fc = <<>>
    /\ time_idx = 1
    /\ calls = <<>>
    /\ unmixNames = "native"
    /\ outcome = "none"
    /\ raised_line = 0
    /\ ctor_arg = NoArg
    /\ result = NoAttrs
    /\ scaleArgs = NoAttrs
    /\ scaleRet = NoAttrs

\* an exception leaves compute
Raise(exc, line) ==
    /\ pc' = "raised"
    /\ outcome' = exc
    /\ raised_line' = line

\* FractionalCover.__init__, lines 41-48
Construct ==
    /\ pc = "new"
    /\ \E arg \in CoefficientArgs, c2 \in BOOLEAN, tm \in BOOLEAN :
         /\ self' = [regression_coefficients |-> InitCoefficients(arg),
                     c2_scaling |-> c2, test_mode |-> tm]
         /\ ctor_arg' = arg
    /\ pc' = "ready"
    /\ UNCHANGED <<input, data, scaled, fc, time_idx, calls, unmixNames,
                   outcome, raised_line, result, scaleArgs, scaleRet>>

\* compute, lines 53-61, up to the call of scale_usgs_collection2
Compute ==
    /\ pc = "ready"
    /\ \E d \in Cubes, names \in {"native", "public"} :
         /\ input' = d
         /\ unmixNames' = names
         /\ data' = IF self.test_mode THEN IselWindow(d) ELSE d
    /\ pc' = IF self.c2_scaling THEN "scale" ELSE "loop"
    /\ scaled' = <<>>
    /\ fc' = <<>>
    /\ time_idx' = 1
    /\ UNCHANGED <<self, calls, outcome, raised_line, ctor_arg, result,
                   scaleArgs, scaleRet>>

\* scale_usgs_collection2, line 104: the next band is rescaled
ScaleBand ==
    /\ pc = "scale"
    /\ Len(scaled) < Len(DataVars(data))
    /\ LET b == DataVars(data)[Len(scaled) + 1]
       IN  /\ HasNodata(data.bands[b])
           /\ scaled' = Append(scaled,
                  [name |-> b,
                   band |-> scale_and_clip_dataarray(data.bands[b], C2Config)])
    /\ UNCHANGED <<pc, self, input, data, fc, time_idx, calls, unmixNames,
                   outcome, raised_line, ctor_arg, result, scaleArgs, scaleRet>>

\* line 110 on a band without nodata metadata
ScaleKeyError ==
    /\ pc = "scale"
    /\ Len(scaled) < Len(DataVars(data))
    /\ ~HasNodata(data.bands[DataVars(data)[Len(scaled) + 1]])
    /\ Raise("KeyError", 110)
    /\ UNCHANGED <<self, input, data, scaled, fc, time_idx, calls, unmixNames,
                   ctor_arg, result, scaleArgs, scaleRet>>

\* line 59: data = scale_usgs_collection2(data)
ScaleDone ==
    /\ pc = "scale"
    /\ Len(scaled) = Len(DataVars(data))
    /\ data' = ApplyResult(data, scaled)
    /\ pc' = "loop"
    /\ UNCHANGED <<self, input, scaled, fc, time_idx, calls, unmixNames,
                   outcome, raised_line, ctor_arg, result, scaleArgs, scaleRet>>

\* the arguments of the call of line 64
UnmixArgs ==
    [slice |-> IselTime(data, time_idx), measurements |-> FC_MEASUREMENTS,
     coefficients |-> self.regression_coefficients, raised |-> FALSE]

\* the result put at the head of the list instead of its end
UnmixOkPrepend ==
    /\ pc = "loop"
    /\ time_idx <= Len(data.time)
    /\ calls' = Append(calls, UnmixArgs)
    /\ fc' = <<fractional_cover(UnmixArgs.slice, UnmixArgs.measurements,
                                UnmixArgs.coefficients)>> \o fc
    /\ time_idx' = time_idx + 1
    /\ UNCHANGED <<pc, self, input, data, scaled, unmixNames, outcome,
                   raised_line, ctor_arg, result, scaleArgs, scaleRet>>

\* lines 63-64: one iteration, fractional_cover returning
UnmixOk ==
    /\ pc = "loop"
    /\ time_idx <= Len(data.time)
    /\ calls' = Append(calls, UnmixArgs)
    /\ fc' = Append(fc, fractional_cover(UnmixArgs.slice, UnmixArgs.measurements,
                                         UnmixArgs.coefficients))
    /\ time_idx' = time_idx + 1
    /\ UNCHANGED <<pc, self, input, data, scaled, unmixNames, outcome,
                   raised_line, ctor_arg, result, scaleArgs, scaleRet>>

\* the failure swallowed and the loop carried on
UnmixRaiseSwallowed ==
    /\ pc = "loop"
    /\ time_idx <= Len(data.time)
    /\ calls' = Append(calls, [UnmixArgs EXCEPT !.raised = TRUE])
    /\ time_idx' = time_idx + 1
    /\ UNCHANGED <<pc, self, input, data, scaled, fc, unmixNames, outcome,
                   raised_line, ctor_arg, result, scaleArgs, scaleRet>>

\* lines 63-64: one iteration, fractional_cover raising
UnmixRaise ==
    /\ pc = "loop"
    /\ time_idx <= Len(data.time)
    /\ calls' = Append(calls, [UnmixArgs EXCEPT !.raised = TRUE])
    /\ Raise("UnmixingFailure", 64)
    /\ UNCHANGED <<self, input, data, scaled, fc, time_idx, unmixNames,
                   ctor_arg, result, scaleArgs, scaleRet>>

\* line 65
Concat ==
    /\ pc = "loop"
    /\ time_idx > Len(data.time)
    /\ Len(fc) > 0
    /\ fc' = ConcatTime(fc)
    /\ pc' = "crs"
    /\ UNCHANGED <<self, input, data, scaled, time_idx, calls, unmixNames,
                   outcome, raised_line, ctor_arg, result, scaleArgs, scaleRet>>

\* line 65: xr.concat of an empty list raises ValueError
ConcatEmpty ==
    /\ pc = "loop"
    /\ time_idx > Len(data.time)
    /\ Len(fc) = 0
    /\ Raise("ValueError", 65)
    /\ UNCHANGED <<self, input, data, scaled, fc, time_idx, calls, unmixNames,
                   ctor_arg, result, scaleArgs, scaleRet>>

\* line 66
SetCrs ==
    /\ pc = "crs"
    /\ "crs" \in DOMAIN data.attrs
    /\ fc' = CopyCrs(fc, data)
    /\ pc' = "rename"
    /\ UNCHANGED <<self, input, data, scaled, time_idx, calls, unmixNames,
                   outcome, raised_line, ctor_arg, result, scaleArgs, scaleRet>>

\* line 66 on a cube without a crs attribute
CrsKeyError ==
    /\ pc = "crs"
    /\ "crs" \notin DOMAIN data.attrs
    /\ Raise("KeyError", 66)
    /\ UNCHANGED <<self, input, data, scaled, fc, time_idx, calls, unmixNames,
                   ctor_arg, result, scaleArgs, scaleRet>>

\* lines 67-70
Rename ==
    /\ pc = "rename"
    /\ LET r == TryRename(fc)
       IN  IF r.raised
           THEN Raise("ValueError", 68) /\ fc' = fc
           ELSE pc' = "return" /\ fc' = r.cube /\ UNCHANGED <<outcome, raised_line>>
    /\ UNCHANGED <<self, input, data, scaled, time_idx, calls, unmixNames,
                   ctor_arg, result, scaleArgs, scaleRet>>

\* line 71
Return ==
    /\ pc = "return"
    /\ result' = fc
    /\ outcome' = "returned"
    /\ pc' = "done"
    /\ UNCHANGED <<self, input, data, scaled, fc, time_idx, calls, unmixNames,
                   raised_line, ctor_arg, scaleArgs, scaleRet>>

\* a direct call of scale_and_clip_dataarray, lines 107-126
CallScale ==
    /\ pc = "new"
    /\ \E band \in ScaleBands, cfg \in ScaleConfigs :
         /\ HasNodata(band)
         /\ scaleArgs' = [band |-> band, cfg |-> cfg]
         /\ scaleRet' = scale_and_clip_dataarray(band, cfg)
    /\ pc' = "scaled"
    /\ outcome' = "returned"
    /\ UNCHANGED <<self, input, data, scaled, fc, time_idx, calls, unmixNames,
                   raised_line, ctor_arg, result>>

\* the same call on a band without nodata metadata: line 110 raises
CallScaleKeyError ==
    /\ pc = "new"
    /\ \E band \in ScaleBands, cfg \in ScaleConfigs :
         /\ ~HasNodata(band)
         /\ scaleArgs' = [band |-> band, cfg |-> cfg]
    /\ pc' = "scale_raised"
    /\ outcome' = "KeyError"
    /\ raised_line' = 110
    /\ UNCHANGED <<self, input, data, scaled, fc, time_idx, calls, unmixNames,
                   ctor_arg, result, scaleRet>>

Next ==
    \/ Construct
    \/ Compute
    \/ ScaleBand
    \/ ScaleKeyError
    \/ ScaleDone
    \/ UnmixOk
    \/ UnmixRaise
    \/ Concat
    \/ ConcatEmpty
    \/ SetCrs
    \/ CrsKeyError
    \/ Rename
    \/ Return
    \/ CallScale
    \/ CallScaleKeyError

Spec == Init /\ [][Next]_vars

----------------------------------------------------------------------------
(* Properties *)

InCompute == pc \in {"scale", "loop", "crs", "rename", "return", "done", "raised"}

Finished == pc \in {"done", "raised"}

\* clip(raw * scale_factor + add_offset, range) cast to int16
ClaimedValue(raw, cfg) ==
    AsInt16(IF cfg.clip = <<>>
            THEN Affine(raw, cfg)
            ELSE ClipValue(Affine(raw, cfg), cfg.clip[1], cfg.clip[2]))

\* C1: every cell whose raw value is not the band's nodata value comes out
\* of scale_and_clip_dataarray as raw * scale_factor + add_offset, clamped
\* into the clip range and cast to int16; under the configuration of
\* scale_usgs_collection2 a raw 5000 comes out as 0.
C1_AffineClipCast ==
    /\ pc = "scaled" =>
         \A i \in DOMAIN scaleArgs.band.data :
            scaleArgs.band.data[i] # scaleArgs.band.attrs.nodata =>
               scaleRet.data[i] = ClaimedValue(scaleArgs.band.data[i], scaleArgs.cfg)
    /\ pc = "scale" =>
         \A j \in DOMAIN scaled :
            LET raw == data.bands[scaled[j].name]
            IN  \A i \in DOMAIN raw.data :
                   raw.data[i] = 5000 /\ raw.attrs.nodata # 5000 =>
                      scaled[j].band.data[i] = 0

\* C2: every position whose raw value equals the band's original nodata
\* value holds new_nodata in the array scale_and_clip_dataarray returns,
\* whatever the scale, offset and clip range.
C2_NodataInvariance ==
    /\ pc = "scaled" =>
         \A i \in DOMAIN scaleArgs.band.data :
            scaleArgs.band.data[i] = scaleArgs.band.attrs.nodata =>
               scaleRet.data[i] = scaleArgs.cfg.nn
    /\ pc = "scale" =>
         \A j \in DOMAIN scaled :
            LET raw == data.bands[scaled[j].name]
            IN  \A i \in DOMAIN raw.data :
                   raw.data[i] = raw.attrs.nodata =>
                      scaled[j].band.data[i] = DefaultNewNodata

C2_Witness ==
    /\ pc = "scaled"
    /\ scaleArgs.cfg = C2Config
    /\ scaleArgs.band.attrs.nodata = 0
    /\ scaleArgs.band.data = <<0, 5000>>
    /\ scaleRet.data = <<-999, -625>>

\* the cube carries a crs attribute and, when it is to be rescaled, nodata
\* metadata on every band
WellFormed(d) ==
    /\ "crs" \in DOMAIN d.attrs
    /\ self.c2_scaling => \A b \in DOMAIN d.bands : HasNodata(d.bands[b])

NoUnmixFailure == \A i \in DOMAIN calls : ~calls[i].raised

UnmixOf(call) ==
    fractional_cover(call.slice, call.measurements, call.coefficients)

InOrderResult ==
    /\ outcome = "returned"
    /\ Len(calls) = Len(input.time)
    /\ \A i \in DOMAIN calls :
          /\ calls[i].slice = IselTime(data, i)
          /\ calls[i].slice.time = input.time[i]
    /\ DOMAIN result.time = DOMAIN input.time
    /\ \A i \in DOMAIN input.time :
          /\ result.time[i] = input.time[i]
          /\ result.slices[i] = UnmixOf(calls[i]).of

\* C3: on a cube of N >= 0 timesteps on which fractional_cover succeeds for
\* every slice, compute calls it once per time index in increasing order and
\* returns a cube of N timesteps whose i-th slice is the result for the
\* input's i-th slice.
C3_OncePerSliceInOrder ==
    (Finished /\ WellFormed(input) /\ NoUnmixFailure) => InOrderResult

\* C3, amended: the same on cubes of N >= 1 timesteps (on an empty time
\* axis line 65 raises ValueError and no cube is returned).
C3_NonEmptyInOrder ==
    (Finished /\ WellFormed(input) /\ NoUnmixFailure /\ Len(input.time) >= 1)
        => InOrderResult

C3_NonEmptyWitness ==
    /\ pc = "done"
    /\ input.time = <<2, 1, 2>>
    /\ Len(calls) = 3
    /\ result.time = <<2, 1, 2>>

\* the cube as it stands before the rename of lines 67-70
PreRename == CopyCrs(ConcatTime([i \in DOMAIN calls |-> UnmixOf(calls[i])]), data)

\* C4: the cube compute returns has the band names pv, npv, bs, ue, whether
\* fractional_cover emits the native or the public names; with the public
\* names the rename raises nothing and leaves the cube as it was.
C4_PublicNames ==
    /\ pc = "return" => fc.names = PublicNames
    /\ pc = "done" =>
          /\ result.names = PublicNames
          /\ unmixNames = "public" => result = PreRename
    /\ raised_line \notin 67..70

C4_Witness ==
    /\ pc = "done"
    /\ unmixNames = "public"
    /\ Len(result.time) >= 1
    /\ result.names = PublicNames

\* C5: the cube compute returns carries the crs attribute of the cube passed
\* in, for every test_mode and c2_scaling; neither the subsample nor the
\* normalization changes the cube's attributes.
C5_CrsThreaded ==
    /\ (InCompute /\ "crs" \in DOMAIN input.attrs) =>
          /\ "crs" \in DOMAIN data.attrs
          /\ data.attrs.crs = input.attrs.crs
    /\ pc = "done" =>
          /\ "crs" \in DOMAIN input.attrs
          /\ "crs" \in DOMAIN result.attrs
          /\ result.attrs.crs = input.attrs.crs

C5_Witness ==
    /\ pc = "done"
    /\ self.test_mode
    /\ self.c2_scaling
    /\ input.attrs.crs = "EPSG:32655"
    /\ result.attrs.crs = "EPSG:32655"

\* the extent the test window leaves of an axis of n cells
Windowed(n) == IF self.test_mode THEN (IF n > 100 THEN 100 ELSE n) ELSE n

\* C6: with test_mode the cube is cut to its first 100 cells along x and y
\* before normalization and before any fractional_cover call, so every slice
\* passed and the cube returned have extent min(100, original) along each
\* axis, the time axis being unchanged; without test_mode the extent is the
\* original one.
C6_TestWindow ==
    /\ InCompute =>
          /\ data.nx = Windowed(input.nx)
          /\ data.ny = Windowed(input.ny)
          /\ data.time = input.time
    /\ \A i \in DOMAIN calls :
          /\ calls[i].slice.nx = Windowed(input.nx)
          /\ calls[i].slice.ny = Windowed(input.ny)
    /\ pc = "done" =>
          /\ result.nx = Windowed(input.nx)
          /\ result.ny = Windowed(input.ny)
          /\ result.time = input.time

C6_Witness ==
    /\ pc = "done"
    /\ self.test_mode
    /\ self.c2_scaling
    /\ input.nx = 2
    /\ input.ny > 100
    /\ result.nx = 2
    /\ result.ny = 100
    /\ Len(calls) = 2

\* a band of the input lacks nodata metadata, or the coefficients name a
\* band the cube does not have
Misconfigured ==
    \/ \E b \in DOMAIN input.bands : ~HasNodata(input.bands[b])
    \/ \E b \in DOMAIN self.regression_coefficients : b \notin DOMAIN input.bands

\* C7: on such an input (here with at least one timestep) compute ends in a
\* ConfigurationError before any computation: no band rescaled,
\* fractional_cover never called.
C7_FailFast ==
    (Finished /\ Misconfigured /\ Len(input.time) >= 1) =>
        /\ outcome = "ConfigurationError"
        /\ Len(scaled) = 0
        /\ Len(calls) = 0

\* C8: whatever regression_coefficients __init__ was given (none, or a
\* mapping naming some of the five required bands), the coefficients passed
\* to fractional_cover hold one pair for each of the five bands, the identity
\* pair for every band the caller did not name.
C8_FiveIdentityDefaults ==
    \A i \in DOMAIN calls :
        (~ctor_arg.given \/ DOMAIN ctor_arg.map \subseteq RequiredBandSet) =>
            /\ DOMAIN calls[i].coefficients = RequiredBandSet
            /\ \A b \in RequiredBandSet :
                  (~ctor_arg.given \/ b \notin DOMAIN ctor_arg.map) =>
                      calls[i].coefficients[b] = IdentityPair

\* C9: when fractional_cover fails on the slice at index k, compute ends in
\* that failure and returns no cube; the call for slice k is the last one:
\* slices 1..k were each passed once, in order, and none after k.
C9_AbortOnFailure ==
    \A k \in DOMAIN calls :
        calls[k].raised =>
            /\ k = Len(calls)
            /\ pc = "raised"
            /\ outcome = "UnmixingFailure"
            /\ raised_line = 64
            /\ DOMAIN result = {}
            /\ \A j \in 1..k : calls[j].slice = IselTime(data, j)

C9_Witness ==
    /\ pc = "raised"
    /\ outcome = "UnmixingFailure"
    /\ Len(data.time) = 3
    /\ Len(calls) = 2
    /\ Len(fc) = 1
    /\ calls[2].raised

\* C10: under the configuration of scale_usgs_collection2 a cell of the
\* rescaled band holds the new nodata value -999 only where the raw cell held
\* the band's original nodata value.
C10_NodataSetPreserved ==
    (pc = "scaled" /\ scaleArgs.cfg = C2Config) =>
        \A i \in DOMAIN scaleArgs.band.data :
           scaleRet.data[i] = DefaultNewNodata =>
              scaleArgs.band.data[i] = scaleArgs.band.attrs.nodata

====
